---- MODULE Spec2Model ----
(***************************************************************************)
(* The libFuzzer fixtures of src/integration-tests:                        *)
(*   libfuzzer/simple.c               harness with the fault dispatcher    *)
(*   libfuzzer-regression/simple.c    three byte gate, abort               *)
(*   libfuzzer-load-library/main.c    LoadLibrary("bad.dll") indirection   *)
(*   libfuzzer-load-library/bad.c     func, the dispatcher behind it       *)
(*   libfuzzer-dlopen/main.c          dlopen("libbad.so") indirection      *)
(* One behaviour is one fixture (variant), run as a sequence of processes. *)
(* A process starts with its globals zero-initialised, the driver calls    *)
(* LLVMFuzzerInitialize once when the fixture defines it and then          *)
(* LLVMFuzzerTestOneInput repeatedly.  The driver (libFuzzer) does not     *)
(* look at the value LLVMFuzzerInitialize returns.                         *)
(***************************************************************************)
EXTENDS Integers, Sequences, FiniteSets, TLC

VARIABLES
    variant,         \* which fixture this behaviour runs
    FIXED,           \* libfuzzer-regression/simple.c built with -DFIXED
    module_present,  \* the loader finds bad.dll / libbad.so
    symbol_present,  \* the module exports "func"
    fs,              \* the openable files: path -> sequence of lines
    fs0,             \* the files' content before the first process
    runs,            \* number of processes started so far
    proc,            \* "start", "running", "exited" (exit()), "crashed"
    exit_status,     \* "none", "EXIT_FAILURE", "SIGABRT", "fault"
    init_returned,   \* LLVMFuzzerInitialize returned to the driver
    init_ret,        \* the value it returned
    args,            \* the argument vector LLVMFuzzerInitialize was given
    named,           \* per path: --write_test_file arguments naming it, so far
    reached,         \* per path: those of them the argument loop got to
    output,          \* what the process printed (printf, perror)
    only_asan,       \* simple.c:10
    fuzz_func,       \* main.c:10, "NULL" or "func"
    cnt,             \* the dispatcher's local counter when it last finished
    call,            \* the last LLVMFuzzerTestOneInput call of this process
    call_seq         \* flips on every LLVMFuzzerTestOneInput call

vars == <<variant, FIXED, module_present, symbol_present, fs, fs0, runs, proc,
          exit_status, init_returned, init_ret, args, named, reached, output,
          only_asan, fuzz_func, cnt, call, call_seq>>

(***************************************************************************)
(* Bounds                                                                  *)
(***************************************************************************)
MaxLen == 4      \* longest input buffer
MaxArgs == 2     \* arguments after argv[0]
MaxRuns == 2     \* processes per behaviour

(***************************************************************************)
(* Bytes and strings                                                       *)
(***************************************************************************)
ASCII == ("a" :> 97) @@ ("x" :> 120) @@ ("y" :> 121) @@ ("z" :> 122) @@
         ("0" :> 48) @@ ("1" :> 49) @@ ("2" :> 50) @@ ("3" :> 51) @@
         ("4" :> 52) @@ ("5" :> 53) @@ ("6" :> 54) @@ ("7" :> 55) @@
         ("8" :> 56) @@ ("9" :> 57)

\* data[i] of a C buffer; an index past the end yields no byte of the input
Byte(data, i) == IF i < Len(data) THEN data[i + 1] ELSE -1

strlen(s) == Len(s)

\* strncmp(a, b, n) == 0
strncmp_eq(a, b, n) ==
    LET m == IF Len(a) < n THEN Len(a) ELSE n
        k == IF Len(b) < n THEN Len(b) ELSE n
    IN  m = k /\ SubSeq(a, 1, m) = SubSeq(b, 1, k)

\* strcmp(a, b) == 0
strcmp_eq(a, b) == a = b

test_file_arg == "--write_test_file="
asan_only_arg == "--only_asan_failures"
marker == "Hello from simple fuzzer\n"

(***************************************************************************)
(* Inputs of the driver                                                    *)
(***************************************************************************)
Variants == {"simple", "regression", "load_library", "dlopen"}
Dynamic == {"load_library", "dlopen"}

Selectors == {0, 8} \cup {ASCII[c] : c \in {"0", "1", "2", "3", "4", "5", "6", "7", "8", "9"}}

\* the bytes tried at offset i: the gate's byte or another at 0..2, a
\* selector at 3, a filler after it
BytesAt(i) ==
    CASE i = 0 -> {ASCII["x"], ASCII["a"]}
      [] i = 1 -> {ASCII["y"], ASCII["a"]}
      [] i = 2 -> {ASCII["z"], ASCII["a"]}
      [] i = 3 -> Selectors
      [] OTHER -> {0}

Inputs ==
    UNION {{d \in [1..n -> Selectors \cup {0, ASCII["a"], ASCII["x"], ASCII["y"], ASCII["z"]}] :
               \A j \in 1..n : d[j] \in BytesAt(j - 1)} : n \in 0..MaxLen}

ArgTokens == {"--write_test_file=a.txt", "--write_test_file=/nodir/b.txt",
              "--only_asan_failures", "--only_asan_failures_x"}

ArgVectors ==
    UNION {{<<"fuzz.exe">> \o s : s \in [1..n -> ArgTokens]} : n \in 0..MaxArgs}

\* the two settings of only_asan, for the runs that explore the dispatcher
FlagArgVectors == {<<"fuzz.exe">>, <<"fuzz.exe", "--only_asan_failures">>}

\* a C string literal as bytes
Bytes(chars) == [i \in 1..Len(chars) |-> ASCII[chars[i]]]

\* a few inputs for the runs that explore the arguments and the processes
FewInputs == {<<>>, Bytes(<<"x", "y", "a", "8">>), Bytes(<<"x", "y", "z", "9">>),
              Bytes(<<"x", "y", "z", "0">>), Bytes(<<"x", "y", "z", "8">>)}

OpenablePaths == {"a.txt"}

NoCall == [valid |-> FALSE, data |-> <<>>, dispatcher |-> "none", reads |-> {},
           fault |-> "none", returned |-> FALSE, ret |-> 0, asan |-> FALSE,
           d_calls |-> 0, d_data |-> <<>>, d_size |-> 0,
           d_returned |-> FALSE, d_ret |-> 0]

(***************************************************************************)
(* The fault dispatcher: libfuzzer/simple.c LLVMFuzzerTestOneInput and     *)
(* libfuzzer-load-library/bad.c func                                       *)
(***************************************************************************)
UBKinds == {"segv", "stack_underflow", "stack_overflow", "bad_free",
            "double_free", "use_after_free", "heap_overflow", "fpe"}

\* as if the counter were static: it starts where the last call left it
cnt0_static == cnt

\* int cnt = 0;
cnt0 == 0

\* the three if (data[i] == ...) { cnt++; }
GateHits(data) ==
    (IF Byte(data, 0) = ASCII["x"] THEN 1 ELSE 0)
  + (IF Byte(data, 1) = ASCII["y"] THEN 1 ELSE 0)
  + (IF Byte(data, 2) = ASCII["z"] THEN 1 ELSE 0)

\* as if two hits opened the gate
GateOpen_two(c) == c >= 2

\* if (cnt >= 3)
GateOpen(c) == c >= 3

\* as if the length check allowed three bytes
simple_too_short_three(len) == len < 3

\* if (len < 4) return 0;
simple_too_short(len) == len < 4

\* as if cases '1' and '2' were exchanged
simple_switch_swapped(sel, asan) ==
    CASE sel = ASCII["0"] -> "segv"
      [] sel = ASCII["1"] -> "stack_overflow"
      [] sel = ASCII["2"] -> "stack_underflow"
      [] sel = ASCII["3"] -> "bad_free"
      [] sel = ASCII["4"] -> "double_free"
      [] sel = ASCII["5"] -> "use_after_free"
      [] sel = ASCII["6"] -> "heap_overflow"
      [] sel = ASCII["7"] -> "fpe"
      [] sel = ASCII["8"] -> IF asan THEN "none" ELSE "abort"
      [] OTHER -> "none"

\* as if the switch had a default: abort();
simple_switch_default(sel, asan) ==
    CASE sel = ASCII["0"] -> "segv"
      [] sel = ASCII["1"] -> "stack_underflow"
      [] sel = ASCII["2"] -> "stack_overflow"
      [] sel = ASCII["3"] -> "bad_free"
      [] sel = ASCII["4"] -> "double_free"
      [] sel = ASCII["5"] -> "use_after_free"
      [] sel = ASCII["6"] -> "heap_overflow"
      [] sel = ASCII["7"] -> "fpe"
      [] sel = ASCII["8"] -> IF asan THEN "none" ELSE "abort"
      [] OTHER -> "abort"

\* switch (data[3]) of simple.c; "none" when no case matches
simple_switch(sel, asan) ==
    CASE sel = ASCII["0"] -> "segv"
      [] sel = ASCII["1"] -> "stack_underflow"
      [] sel = ASCII["2"] -> "stack_overflow"
      [] sel = ASCII["3"] -> "bad_free"
      [] sel = ASCII["4"] -> "double_free"
      [] sel = ASCII["5"] -> "use_after_free"
      [] sel = ASCII["6"] -> "heap_overflow"
      [] sel = ASCII["7"] -> "fpe"
      [] sel = ASCII["8"] -> IF asan THEN "none" ELSE "abort"
      [] OTHER -> "none"

simple_dispatch(data, len, asan) ==
    IF simple_too_short(len)
    THEN [reads |-> {}, cnt |-> cnt0, fault |-> "none", ret |-> 0]
    ELSE LET c == cnt0 + GateHits(data)
         IN  IF GateOpen(c)
             THEN [reads |-> {0, 1, 2, 3}, cnt |-> c, ret |-> 0,
                   fault |-> simple_switch(Byte(data, 3), asan)]
             ELSE [reads |-> {0, 1, 2}, cnt |-> c, ret |-> 0,
                   fault |-> "none"]

\* if (len < 4) return 0; of bad.c
func_too_short(len) == len < 4

\* switch (data[3]) of bad.c: cases '0'..'7' only
func_switch(sel) ==
    CASE sel = ASCII["0"] -> "segv"
      [] sel = ASCII["1"] -> "stack_underflow"
      [] sel = ASCII["2"] -> "stack_overflow"
      [] sel = ASCII["3"] -> "bad_free"
      [] sel = ASCII["4"] -> "double_free"
      [] sel = ASCII["5"] -> "use_after_free"
      [] sel = ASCII["6"] -> "heap_overflow"
      [] sel = ASCII["7"] -> "fpe"
      [] OTHER -> "none"

func(data, len) ==
    IF func_too_short(len)
    THEN [reads |-> {}, cnt |-> cnt0, fault |-> "none", ret |-> 0]
    ELSE LET c == cnt0 + GateHits(data)
         IN  IF GateOpen(c)
             THEN [reads |-> {0, 1, 2, 3}, cnt |-> c, ret |-> 0,
                   fault |-> func_switch(Byte(data, 3))]
             ELSE [reads |-> {0, 1, 2}, cnt |-> c, ret |-> 0,
                   fault |-> "none"]

\* if (len < 3) return 0; of libfuzzer-regression/simple.c
regression_too_short(len) == len < 3

regression_dispatch(data, len, fixed) ==
    IF regression_too_short(len)
    THEN [reads |-> {}, cnt |-> cnt0, fault |-> "none", ret |-> 0]
    ELSE LET c == cnt0 + GateHits(data)
         IN  [reads |-> {0, 1, 2}, cnt |-> c, ret |-> 0,
              fault |-> IF ~fixed /\ GateOpen(c) THEN "abort" ELSE "none"]

\* A fault of UBKinds is undefined behaviour: the build either stops the
\* process there (signal, sanitizer report, allocator abort) or lets the
\* call run on to return 0, the globals untouched (the writes go to the
\* stack and the heap).  abort() always stops it.
Returns(fault, survives) ==
    \/ fault = "none"
    \/ fault \in UBKinds /\ survives

StatusOf(fault) == IF fault \in {"abort", "assert"} THEN "SIGABRT" ELSE "fault"

(***************************************************************************)
(* libfuzzer/simple.c LLVMFuzzerInitialize                                 *)
(***************************************************************************)
\* fopen(file_name, "a") returns non-NULL
CanOpen(files, file_name) == file_name \in DOMAIN files

\* as if the file were opened with mode "w"
fopen_mode_w(content) == <<>>

\* what fopen(file_name, "a") leaves of the file: mode "a" keeps it all
fopen_mode(content) == content

\* fopen(file_name, "a"); fputs(line, output); fclose(output);
AppendLine(files, file_name, line) ==
    [files EXCEPT ![file_name] = Append(fopen_mode(@), line)]

\* strncmp(args[i], test_file_arg, strlen(test_file_arg)) == 0
IsTestFileArg(arg) == strncmp_eq(arg, test_file_arg, strlen(test_file_arg))

\* args[i] + strlen(test_file_arg)
FileNameOf(arg) == SubSeq(arg, strlen(test_file_arg) + 1, Len(arg))

\* strcmp(args[i], asan_only_arg) == 0
IsAsanOnlyArg(arg) == strcmp_eq(arg, asan_only_arg)

\* the for loop from index i on, with the files and only_asan as they are
\* when the loop gets there
RECURSIVE simple_InitLoop(_, _, _, _)
simple_InitLoop(argv, i, files, asan) ==
    IF ~(i < Len(argv))
    THEN [ret |-> 0, fs |-> files, only_asan |-> asan, perror |-> FALSE]
    ELSE LET arg == argv[i + 1]
             asan2 == IF IsAsanOnlyArg(arg) THEN TRUE ELSE asan
         IN  IF IsTestFileArg(arg)
             THEN IF ~CanOpen(files, FileNameOf(arg))
                  THEN [ret |-> -1, fs |-> files, only_asan |-> asan,
                        perror |-> TRUE]
                  ELSE simple_InitLoop(argv, i + 1,
                           AppendLine(files, FileNameOf(arg), marker), asan2)
             ELSE simple_InitLoop(argv, i + 1, files, asan2)

\* the --write_test_file arguments naming path p
NamedWrites(argv, p) ==
    Cardinality({i \in 1..Len(argv) :
        IsTestFileArg(argv[i]) /\ FileNameOf(argv[i]) = p})

\* those of them that come before the first --write_test_file argument whose
\* path cannot be opened
ReachedWrites(argv, p) ==
    Cardinality({i \in 1..Len(argv) :
        /\ IsTestFileArg(argv[i]) /\ FileNameOf(argv[i]) = p
        /\ \A j \in 1..i : IsTestFileArg(argv[j]) => FileNameOf(argv[j]) \in OpenablePaths})

simple_LLVMFuzzerInitialize(argv) ==
    /\ variant = "simple"
    /\ proc = "start"
    /\ LET r == simple_InitLoop(argv, 0, fs, only_asan)
       IN  /\ fs' = r.fs
           /\ only_asan' = r.only_asan
           /\ init_ret' = r.ret
           /\ output' = IF r.perror THEN Append(output, "failed to open file")
                        ELSE output
    /\ init_returned' = TRUE
    /\ proc' = "running"
    /\ args' = argv
    /\ named' = [p \in DOMAIN named |-> named[p] + NamedWrites(argv, p)]
    /\ reached' = [p \in DOMAIN reached |-> reached[p] + ReachedWrites(argv, p)]
    /\ UNCHANGED <<variant, FIXED, module_present, symbol_present, fs0, runs,
                   exit_status, fuzz_func, cnt, call, call_seq>>

(***************************************************************************)
(* libfuzzer-load-library/main.c and libfuzzer-dlopen/main.c               *)
(* LLVMFuzzerInitialize                                                    *)
(***************************************************************************)
\* GetProcAddress(handle, "func") / dlsym(handle, "func")
Resolve(present) == IF present THEN "func" ELSE "NULL"

\* main.c of libfuzzer-load-library: exit(EXIT_FAILURE) on either failure
load_library_Init(mod, sym, ff) ==
    IF ~mod
    THEN [exits |-> TRUE, ret |-> 0, fuzz_func |-> ff,
          out |-> <<"initialize", "can't open dll">>]
    ELSE IF Resolve(sym) = "NULL"
         THEN [exits |-> TRUE, ret |-> 0, fuzz_func |-> Resolve(sym),
               out |-> <<"initialize", "unable to load fuzz func">>]
         ELSE [exits |-> FALSE, ret |-> 0, fuzz_func |-> Resolve(sym),
               out |-> <<"initialize">>]

\* main.c of libfuzzer-dlopen: return 1 when dlopen fails, exit(EXIT_FAILURE)
\* when dlerror() reports that dlsym failed
dlopen_Init(mod, sym, ff) ==
    IF ~mod
    THEN [exits |-> FALSE, ret |-> 1, fuzz_func |-> ff,
          out |-> <<"initilize", "can't open">>]
    ELSE IF ~sym
         THEN [exits |-> TRUE, ret |-> 0, fuzz_func |-> Resolve(sym),
               out |-> <<"initilize", "dlerror">>]
         ELSE [exits |-> FALSE, ret |-> 0, fuzz_func |-> Resolve(sym),
               out |-> <<"initilize">>]

DynamicInitialize(r) ==
    /\ proc = "start"
    /\ fuzz_func' = r.fuzz_func
    /\ output' = output \o r.out
    /\ proc' = IF r.exits THEN "exited" ELSE "running"
    /\ exit_status' = IF r.exits THEN "EXIT_FAILURE" ELSE exit_status
    /\ init_returned' = ~r.exits
    /\ init_ret' = r.ret
    /\ UNCHANGED <<variant, FIXED, module_present, symbol_present, fs, fs0,
                   runs, args, named, reached, only_asan, cnt, call,
                   call_seq>>

load_library_LLVMFuzzerInitialize ==
    /\ variant = "load_library"
    /\ DynamicInitialize(load_library_Init(module_present, symbol_present,
                                           fuzz_func))

dlopen_LLVMFuzzerInitialize ==
    /\ variant = "dlopen"
    /\ DynamicInitialize(dlopen_Init(module_present, symbol_present, fuzz_func))

(***************************************************************************)
(* LLVMFuzzerTestOneInput                                                  *)
(***************************************************************************)
\* the call ends: it returns 0, or the process stops in the fault
EndCall(c, r) ==
    /\ call' = c
    /\ cnt' = r.cnt
    /\ call_seq' = 1 - call_seq
    /\ proc' = IF c.returned THEN "running" ELSE "crashed"
    /\ exit_status' = IF c.returned THEN exit_status ELSE StatusOf(c.fault)
    /\ UNCHANGED <<variant, FIXED, module_present, symbol_present, fs, fs0,
                   runs, init_returned, init_ret, args, named, reached,
                   output, only_asan, fuzz_func>>

simple_LLVMFuzzerTestOneInput(data, survives) ==
    /\ variant = "simple"
    /\ proc = "running"
    /\ LET r == simple_dispatch(data, Len(data), only_asan)
       IN  /\ survives => r.fault \in UBKinds
           /\ EndCall([NoCall EXCEPT !.valid = TRUE, !.data = data,
                                  !.dispatcher = "simple", !.reads = r.reads,
                                  !.fault = r.fault, !.asan = only_asan,
                                     !.returned = Returns(r.fault, survives),
                                     !.ret = r.ret], r)

regression_LLVMFuzzerTestOneInput(data) ==
    /\ variant = "regression"
    /\ proc = "running"
    /\ LET r == regression_dispatch(data, Len(data), FIXED)
       IN  EndCall([NoCall EXCEPT !.valid = TRUE, !.data = data,
                                  !.dispatcher = "regression",
                                  !.reads = r.reads, !.fault = r.fault,
                                  !.returned = Returns(r.fault, FALSE),
                                  !.ret = r.ret], r)

\* as if main.c passed one byte less
Forward_short(data, size) == [data |-> data, size |-> size - 1]

\* what main.c hands to fuzz_func: fuzz_func(data, size)
Forward(data, size) == [data |-> data, size |-> size]

\* assert(fuzz_func != NULL); return fuzz_func(data, size);
main_TestOneInput(data, size, survives) ==
    IF fuzz_func = "NULL"
    THEN ~survives /\ EndCall([NoCall EXCEPT !.valid = TRUE, !.data = data,
                                !.fault = "assert"],
                 [cnt |-> cnt])
    ELSE LET a == Forward(data, size)
             r == func(a.data, a.size)
             back == Returns(r.fault, survives)
         IN  (survives => r.fault \in UBKinds) /\
             EndCall([NoCall EXCEPT !.valid = TRUE, !.data = data,
                                    !.dispatcher = "func", !.reads = r.reads,
                                    !.fault = r.fault, !.d_calls = 1,
                                    !.d_data = a.data, !.d_size = a.size,
                                    !.d_returned = back, !.d_ret = r.ret,
                                    !.returned = back, !.ret = r.ret], r)

load_library_LLVMFuzzerTestOneInput(data, survives) ==
    /\ variant = "load_library"
    /\ proc = "running"
    /\ main_TestOneInput(data, Len(data), survives)

dlopen_LLVMFuzzerTestOneInput(data, survives) ==
    /\ variant = "dlopen"
    /\ proc = "running"
    /\ main_TestOneInput(data, Len(data), survives)

(***************************************************************************)
(* Processes                                                               *)
(***************************************************************************)
\* regression/simple.c defines no LLVMFuzzerInitialize
FirstStep(v) == IF v = "regression" THEN "running" ELSE "start"

\* the driver starts the next process: globals are initialised again
\* (only_asan = false, fuzz_func = NULL), the files stay
ProcessStart ==
    /\ proc # "start"
    /\ runs < MaxRuns
    /\ runs' = runs + 1
    /\ proc' = FirstStep(variant)
    /\ exit_status' = "none"
    /\ init_returned' = FALSE
    /\ init_ret' = 0
    /\ args' = <<>>
    /\ output' = <<>>
    /\ only_asan' = FALSE
    /\ fuzz_func' = "NULL"
    /\ cnt' = 0
    /\ call' = NoCall
    /\ call_seq' = 0
    /\ UNCHANGED <<variant, FIXED, module_present, symbol_present, fs, fs0,
                   named, reached>>

Init ==
    /\ variant \in Variants
    /\ FIXED \in (IF variant = "regression" THEN BOOLEAN ELSE {FALSE})
    /\ module_present \in (IF variant \in Dynamic THEN BOOLEAN ELSE {TRUE})
    /\ symbol_present \in (IF variant \in Dynamic THEN BOOLEAN ELSE {TRUE})
    /\ fs \in [OpenablePaths -> {<<>>, <<"earlier line\n">>}]
    /\ fs0 = fs
    /\ runs = 1
    /\ proc = FirstStep(variant)
    /\ exit_status = "none"
    /\ init_returned = FALSE
    /\ init_ret = 0
    /\ args = <<>>
    /\ named = [p \in OpenablePaths |-> 0]
    /\ reached = [p \in OpenablePaths |-> 0]
    /\ output = <<>>
    /\ only_asan = FALSE
    /\ fuzz_func = "NULL"
    /\ cnt = 0
    /\ call = NoCall
    /\ call_seq = 0

\* one process: the dispatcher under every input, with only_asan either way
Next ==
    \/ \E argv \in FlagArgVectors : simple_LLVMFuzzerInitialize(argv)
    \/ \E data \in Inputs, survives \in BOOLEAN :
           simple_LLVMFuzzerTestOneInput(data, survives)
    \/ \E data \in Inputs : regression_LLVMFuzzerTestOneInput(data)
    \/ load_library_LLVMFuzzerInitialize
    \/ dlopen_LLVMFuzzerInitialize
    \/ \E data \in Inputs, survives \in BOOLEAN :
           load_library_LLVMFuzzerTestOneInput(data, survives)
    \/ \E data \in Inputs, survives \in BOOLEAN :
           dlopen_LLVMFuzzerTestOneInput(data, survives)

Spec == Init /\ [][Next]_vars

\* the harness under every argument vector, over several processes
NextHarness ==
    \/ \E argv \in ArgVectors : simple_LLVMFuzzerInitialize(argv)
    \/ \E data \in FewInputs, survives \in BOOLEAN :
           simple_LLVMFuzzerTestOneInput(data, survives)
    \/ load_library_LLVMFuzzerInitialize
    \/ dlopen_LLVMFuzzerInitialize
    \/ \E data \in FewInputs, survives \in BOOLEAN :
           load_library_LLVMFuzzerTestOneInput(data, survives)
    \/ \E data \in FewInputs, survives \in BOOLEAN :
           dlopen_LLVMFuzzerTestOneInput(data, survives)
    \/ ProcessStart

SpecHarness == Init /\ [][NextHarness]_vars

TypeOK ==
    /\ variant \in Variants
    /\ proc \in {"start", "running", "exited", "crashed"}
    /\ exit_status \in {"none", "EXIT_FAILURE", "SIGABRT", "fault"}
    /\ fuzz_func \in {"NULL", "func"}
    /\ only_asan \in BOOLEAN
    /\ runs \in 1..MaxRuns

(***************************************************************************)
(* Properties                                                              *)
(***************************************************************************)
\* rows 0..8 of the fault table
FaultTable == <<"segv", "stack_underflow", "stack_overflow", "bad_free",
                "double_free", "use_after_free", "heap_overflow", "fpe",
                "abort">>

\* all three gate bytes are there and match
GateMatch(d) ==
    /\ Len(d) >= 3
    /\ d[1] = ASCII["x"] /\ d[2] = ASCII["y"] /\ d[3] = ASCII["z"]

\* the call ran the dispatcher of simple.c or func of bad.c on four bytes or
\* more with the gate matched
Triggered(d) ==
    /\ call.valid /\ call.dispatcher = d
    /\ Len(call.data) >= 4 /\ GateMatch(call.data)

Selector == call.data[4]

ReturnedZero == call.fault = "none" /\ call.returned /\ call.ret = 0

\* C1 as the claim states it: with the gate matched, a selector byte of value
\* k in 0..8 triggers the fault of row k (simple.c with only_asan false, and
\* func); the bytes 'x','y','z',0x00 give the null-pointer write.
C1_Original ==
    \A k \in 0..8 :
        /\ \/ Triggered("simple") /\ ~call.asan
           \/ Triggered("func")
        /\ Selector = k
        => call.fault = FaultTable[k + 1]

\* C1, amended: the selector is the ASCII digit of the row.  With the gate
\* matched, selector byte '0'+k triggers exactly the fault of row k, for k in
\* 0..8 in simple.c with only_asan false and for k in 0..7 in func, where '8'
\* is no case and returns 0; "xyz0" gives the null-pointer write and
\* 'x','y','a',0x00 returns 0.
C1_SelectorIsDigit ==
    /\ \A k \in 0..8 :
           Triggered("simple") /\ ~call.asan /\ Selector = ASCII["0"] + k
           => call.fault = FaultTable[k + 1]
    /\ \A k \in 0..7 :
           Triggered("func") /\ Selector = ASCII["0"] + k
           => call.fault = FaultTable[k + 1]
    /\ Triggered("func") /\ Selector = ASCII["8"] => ReturnedZero
    /\ call.valid /\ call.dispatcher \in {"simple", "func"}
         /\ call.data = Bytes(<<"x", "y", "z", "0">>)
       => call.fault = "segv"
    /\ call.valid /\ call.dispatcher \in {"simple", "func"}
         /\ call.data = <<ASCII["x"], ASCII["y"], ASCII["a"], 0>>
       => ReturnedZero

C1_Witness ==
    /\ Triggered("simple") /\ ~call.asan
    /\ Selector = ASCII["2"] /\ call.fault = "stack_overflow"

\* C2: when fewer than three gate bytes match, no fault executes and the
\* call returns 0, whatever the selector and only_asan, in simple.c, in func
\* and in regression/simple.c.
C2_NoFaultBelowGate ==
    call.valid /\ call.dispatcher \in {"simple", "func", "regression"}
      /\ ~GateMatch(call.data)
    => ReturnedZero

C2_Witness ==
    /\ call.valid /\ call.dispatcher = "simple" /\ ~call.asan
    /\ call.data = Bytes(<<"x", "y", "a", "0">>)
    /\ call.returned

\* C3: an input shorter than the minimum (4 bytes in simple.c and func, 3 in
\* regression/simple.c) returns 0 with no byte of it read and no fault.
C3_ShortInputUntouched ==
    call.valid
      /\ \/ call.dispatcher \in {"simple", "func"} /\ Len(call.data) < 4
         \/ call.dispatcher = "regression" /\ Len(call.data) < 3
    => call.reads = {} /\ ReturnedZero

C3_Witness ==
    /\ call.valid /\ call.dispatcher = "simple"
    /\ call.data = Bytes(<<"x", "y", "z">>)
    /\ call.returned

\* C4 as the claim states it: with the gate matched, a selector byte outside
\* the values 0..8 returns 0 with no fault.
C4_Original ==
    (Triggered("simple") \/ Triggered("func")) /\ Selector \notin 0..8
    => ReturnedZero

\* C4, amended: with the gate matched, a selector byte outside the ASCII
\* digits '0'..'8' returns 0 with no fault.
C4_NonDigitIsNoOp ==
    /\ Triggered("simple") \/ Triggered("func")
    /\ Selector \notin ASCII["0"]..ASCII["8"]
    => ReturnedZero

C4_Witness ==
    /\ Triggered("simple")
    /\ Selector = ASCII["9"]
    /\ call.returned

HasAsanOnlyArg(argv) == \E i \in 1..Len(argv) : argv[i] = asan_only_arg

HasUnopenableTestFile(argv) ==
    \E i \in 1..Len(argv) :
        /\ Len(argv[i]) >= Len(test_file_arg)
        /\ SubSeq(argv[i], 1, Len(test_file_arg)) = test_file_arg
        /\ SubSeq(argv[i], Len(test_file_arg) + 1, Len(argv[i])) \notin OpenablePaths

\* C5: in simple.c, with --only_asan_failures anywhere in the argument
\* vector, a later call with the gate matched and selector '8' returns 0
\* without aborting while selectors '0'..'7' still trigger their faults;
\* without the flag, selector '8' aborts.
C5_Original ==
    /\ Triggered("simple") /\ HasAsanOnlyArg(args) /\ Selector = ASCII["8"]
       => ReturnedZero
    /\ \A k \in 0..7 :
           Triggered("simple") /\ HasAsanOnlyArg(args)
             /\ Selector = ASCII["0"] + k
           => call.fault = FaultTable[k + 1]
    /\ Triggered("simple") /\ ~HasAsanOnlyArg(args) /\ Selector = ASCII["8"]
       => call.fault = "abort" /\ ~call.returned

\* C6: in the dynamic-load fixtures, when the module or the symbol is
\* missing the process exits with a non-zero status inside
\* LLVMFuzzerInitialize: it never returns to the driver, and no
\* LLVMFuzzerTestOneInput call happens with fuzz_func unbound.
C6_Original ==
    variant \in Dynamic /\ (~module_present \/ ~symbol_present)
    => \/ proc = "start"
       \/ /\ proc = "exited" /\ exit_status = "EXIT_FAILURE"
          /\ ~init_returned /\ ~call.valid

\* the step is an LLVMFuzzerTestOneInput call
CallStep == call_seq' # call_seq /\ call'.valid

\* C7: in the dynamic-load fixtures with fuzz_func bound, every
\* LLVMFuzzerTestOneInput(data, size) calls the bound function once with
\* the same data and size and returns what it returned (and returns only if
\* it did); fuzz_func changes only in LLVMFuzzerInitialize or when a new
\* process starts, never in LLVMFuzzerTestOneInput.
C7_Forwarding ==
    /\ [](variant \in Dynamic /\ call.valid /\ fuzz_func = "func"
          => /\ call.d_calls = 1
             /\ call.d_data = call.data
             /\ call.d_size = Len(call.data)
             /\ call.returned = call.d_returned
             /\ call.ret = call.d_ret)
    /\ [][/\ fuzz_func' # fuzz_func => proc = "start" \/ proc' = "start"
          /\ CallStep => fuzz_func' = fuzz_func]_vars

C7_Witness ==
    /\ variant \in Dynamic /\ fuzz_func = "func"
    /\ call.valid /\ call.d_calls = 1 /\ call.returned
    /\ call.data = Bytes(<<"x", "y", "z", "9">>)

IsPrefix(a, b) == Len(a) <= Len(b) /\ SubSeq(b, 1, Len(a)) = a

Markers(n) == [i \in 1..n |-> marker]

\* C8 as the claim states it: every --write_test_file argument with an
\* openable path adds one marker line to that path.
C8_Original == \A p \in OpenablePaths : fs[p] = fs0[p] \o Markers(named[p])

\* C8, amended: LLVMFuzzerInitialize appends one marker line per
\* --write_test_file argument with an openable path that is not preceded by
\* a --write_test_file argument whose path cannot be opened; what the file
\* held stays in place as a prefix, over any number of processes, so n such
\* arguments in all leave n marker lines after the original content.
C8_AppendOnly ==
    /\ [](\A p \in OpenablePaths : fs[p] = fs0[p] \o Markers(reached[p]))
    /\ [][\A p \in OpenablePaths : IsPrefix(fs[p], fs'[p])]_vars

C8_Witness ==
    /\ runs = 2 /\ proc = "running" /\ Len(args) = 2
    /\ reached["a.txt"] = 2
    /\ fs0["a.txt"] # <<>>
    /\ fs["a.txt"] = fs0["a.txt"] \o <<marker, marker>>

\* C9: in simple.c, when the path of a --write_test_file argument cannot be
\* opened, LLVMFuzzerInitialize reports it and the process ends with a
\* non-zero status; no LLVMFuzzerTestOneInput call follows and the process
\* never goes on with part of its arguments applied.
C9_Original ==
    variant = "simple" /\ HasUnopenableTestFile(args)
    => /\ "failed to open file" \in {output[i] : i \in 1..Len(output)}
       /\ proc = "exited" /\ exit_status = "EXIT_FAILURE"
       /\ ~init_returned /\ ~call.valid

\* C10: the dispatcher keeps nothing from one call to the next: a call with
\* the same bytes as the call before it, under the same only_asan, reads the
\* same bytes and triggers the same fault or none, and no call changes
\* only_asan or fuzz_func.
C10_Stateless ==
    [][CallStep
       => /\ only_asan' = only_asan
          /\ fuzz_func' = fuzz_func
          /\ call.valid /\ call'.data = call.data
             => /\ call'.fault = call.fault
                /\ call'.reads = call.reads
                /\ call'.dispatcher = call.dispatcher]_vars

C10_Witness ==
    /\ variant = "simple" /\ runs = 1 /\ call.valid /\ call_seq = 0
    /\ call.data = Bytes(<<"x", "y", "a", "0">>)
    /\ cnt = 2

====
